---- MODULE Spec2Model ----
(***************************************************************************)
(* The message triage pipeline of app/agent/nodes.py: the five AgentNodes  *)
(* stages over the shared RequestState dictionary, the provider they call, *)
(* and the workflow that runs them in sequence.                            *)
(*                                                                         *)
(* Texts are TLA+ strings, handled character by character as the Python    *)
(* code handles them.  A RequestState is a function from the keys that are *)
(* present to their values, exactly like the Python dict; a sentiment      *)
(* score is kept in tenths (-0.6 is -6).                                   *)
(***************************************************************************)
EXTENDS Integers, Sequences, FiniteSets, TLC

VARIABLES state, prev, last, pc, llm, settings, invocations

vars == <<state, prev, last, pc, llm, settings, invocations>>

(***************************************************************************)
(* Bounds of the model.                                                    *)
(***************************************************************************)
\* A generated inbound message is made of at most MaxWords words.
MaxWords == 2

(***************************************************************************)
(* Python str operations.                                                  *)
(***************************************************************************)
UpperChars == "ABCDEFGHIJKLMNOPQRSTUVWXYZ"
LowerChars == "abcdefghijklmnopqrstuvwxyz"
Whitespace == {" ", "\n", "\t", "\r"}

CharAt(s, i) == SubSeq(s, i, i)

MapChar(c, from, to) ==
    IF \E i \in 1..Len(from) : CharAt(from, i) = c
    THEN CharAt(to, CHOOSE i \in 1..Len(from) : CharAt(from, i) = c)
    ELSE c

\* The characters of s from position i on, each mapped from one case to the other.
RECURSIVE MapFrom(_, _, _, _)
MapFrom(s, i, from, to) ==
    IF i > Len(s) THEN ""
    ELSE MapChar(CharAt(s, i), from, to) \o MapFrom(s, i + 1, from, to)

\* str.lower()
lower(s) == MapFrom(s, 1, UpperChars, LowerChars)

\* str.upper()
upper(s) == MapFrom(s, 1, LowerChars, UpperChars)

\* k in s
Contains(s, k) ==
    \E i \in 1..(Len(s) - Len(k) + 1) : SubSeq(s, i, i + Len(k) - 1) = k

\* str.strip(): s without its leading and trailing whitespace.
strip(s) ==
    LET solid == {i \in 1..Len(s) : CharAt(s, i) \notin Whitespace}
    IN  IF solid = {} THEN ""
        ELSE SubSeq(s, CHOOSE i \in solid : \A j \in solid : i <= j,
                       CHOOSE i \in solid : \A j \in solid : i >= j)

\* str.split(sep) for a one-character separator: the sequence of the pieces
\* between the separator's occurrences.
split(s, sep) ==
    LET at == {i \in 1..Len(s) : CharAt(s, i) = sep}
        n == Cardinality(at)
        cut(k) == IF k = 0 THEN 0
                  ELSE IF k = n + 1 THEN Len(s) + 1
                  ELSE CHOOSE p \in at : Cardinality({q \in at : q <= p}) = k
    IN  [k \in 1..(n + 1) |-> SubSeq(s, cut(k - 1) + 1, cut(k) - 1)]

\* sep.join(parts)
RECURSIVE join(_, _)
join(parts, sep) ==
    IF parts = <<>> THEN ""
    ELSE IF Len(parts) = 1 THEN parts[1]
    ELSE parts[1] \o sep \o join(Tail(parts), sep)

(***************************************************************************)
(* Python dict operations on a RequestState.                               *)
(***************************************************************************)
\* state.get(key, default)
Get(st, key, default) == IF key \in DOMAIN st THEN st[key] ELSE default

\* state[key] = value
Put(st, key, value) == (key :> value) @@ st

\* The truth value of state.get("requires_escalation").
Flag(st) == Get(st, "requires_escalation", FALSE)

(***************************************************************************)
(* app/agent/prompts.py: the fixed texts.  A prompt template is named, its *)
(* wording plays no part in the control flow; the texts that become a      *)
(* response are carried in full, since validation measures them.           *)
(***************************************************************************)
CLASSIFICATION_PROMPT == "CLASSIFICATION_PROMPT"
SUPPORT_RESPONSE_PROMPT_A == "SUPPORT_RESPONSE_PROMPT_A"
SUPPORT_RESPONSE_PROMPT_B == "SUPPORT_RESPONSE_PROMPT_B"
SALES_RESPONSE_PROMPT_A == "SALES_RESPONSE_PROMPT_A"
SALES_RESPONSE_PROMPT_B == "SALES_RESPONSE_PROMPT_B"
GENERAL_RESPONSE_PROMPT_A == "GENERAL_RESPONSE_PROMPT_A"
GENERAL_RESPONSE_PROMPT_B == "GENERAL_RESPONSE_PROMPT_B"

ESCALATION_MESSAGE ==
    "I understand this is important to you, and I want to make sure you get the best possible assistance. I'm connecting you with a human agent who will be able to help you right away. They'll be with you shortly.\n\nIn the meantime, your case has been flagged as high priority."

MOCK_RESPONSES ==
    [support |-> "Thank you for reaching out! I understand your concern. Could you please provide your order number or account email so I can look into this for you right away?",
     sales   |-> "Thank you for your interest in our enterprise plan! For 50 users, our pricing starts at $X per month. I'd be happy to schedule a demo to show you all the features. Would that work for you?",
     general |-> "Hello! Thanks for getting in touch. How can I assist you today?",
     urgent  |-> ESCALATION_MESSAGE]

\* The text validate_response substitutes for a rejected response.
HANDOFF_APOLOGY ==
    "I apologize, but I'm having trouble generating a response. Let me connect you with a human agent."

URGENT_REASON == "Urgent issue requiring immediate human attention"
NEGATIVE_SENTIMENT_REASON == "Highly negative sentiment detected"

\* The four intents of the RequestState data model.
Intents == {"support", "sales", "general", "urgent"}

(***************************************************************************)
(* app/agent/tools.py: the text signal extractors and the formatters the   *)
(* nodes import.  Lexicons and weights are those of the design document.   *)
(***************************************************************************)
UrgencyMarkers ==
    {"ridiculous", "unacceptable", "immediately", "asap", "charged twice", "lawyer", "!!"}

\* True when the text contains an urgency marker, in any letter case.
detect_urgency(text) ==
    LET low == lower(text)
    IN  \E k \in UrgencyMarkers : Contains(low, k)

PositiveTerms == {"thank", "great", "love"}
NegativeTerms == {"terrible", "awful", "unacceptable", "ridiculous"}
\* The weight of one matched lexicon term, in tenths.
TermWeight == 3

\* A variant that returns the sum as it is.
Clamp_Unclamped(x, lo, hi) == x

Clamp(x, lo, hi) == IF x < lo THEN lo ELSE IF x > hi THEN hi ELSE x

\* The signed sum of the matched terms' weights, clamped to [-1.0, 1.0].
extract_sentiment_indicators(text) ==
    LET low == lower(text)
        pos == Cardinality({t \in PositiveTerms : Contains(low, t)})
        neg == Cardinality({t \in NegativeTerms : Contains(low, t)})
    IN  Clamp(TermWeight * pos - TermWeight * neg, -10, 10)

SpanishStopwords == {"hola", "gracias", "necesito"}

\* Stopword heuristic; the configured default when nothing is recognised.
detect_language(text) ==
    IF \E w \in SpanishStopwords : Contains(lower(text), w)
    THEN "es"
    ELSE settings.agent_default_language

NO_CONTEXT == "No previous context."

\* A variant that renders the newest message first.
format_context_NewestFirst(history) ==
    IF history = <<>> THEN NO_CONTEXT
    ELSE join([i \in 1..Len(history) |->
                 upper(history[Len(history) + 1 - i].sender_type) \o ": "
                     \o history[Len(history) + 1 - i].content], "\n")

\* Every message as "ROLE: content", oldest first, one per line.
format_context(history) ==
    IF history = <<>> THEN NO_CONTEXT
    ELSE join([i \in 1..Len(history) |->
                 upper(history[i].sender_type) \o ": " \o history[i].content], "\n")

\* The template key "{intent}_{variant}".
select_prompt_variant(intent, variant) == intent \o "_" \o variant

EMPATHY_PREFIX == "I'm really sorry for the trouble this has caused. "
\* At or below this score (in tenths) the reply gets the empathy prefix.
StronglyNegative == -5

adjust_response_for_sentiment(text, sentiment) ==
    IF sentiment <= StronglyNegative THEN EMPATHY_PREFIX \o text ELSE text

(***************************************************************************)
(* The provider (self.llm).  One invocation either raises or returns a     *)
(* reply with some content; which of the two is the provider's choice.     *)
(* A node's outcome is the state it leaves, the provider calls it made and *)
(* whether an exception left the node.                                     *)
(***************************************************************************)
Raises == [raises |-> TRUE, content |-> ""]
Reply(text) == [raises |-> FALSE, content |-> text]

\* self.llm.invoke(prompt.format_messages(message=..., context=...))
Invocation(node, template, message, context, b) ==
    [node |-> node, template |-> template, message |-> message,
     context |-> context, outcome |-> b]

Outcome(st, calls, raised) == [state |-> st, calls |-> calls, raised |-> raised]

(***************************************************************************)
(* AgentNodes.classify_message                                             *)
(***************************************************************************)
SalesKeywords ==
    {"price", "pricing", "cost", "buy", "purchase", "plan", "enterprise", "demo"}
SupportKeywords ==
    {"order", "tracking", "issue", "problem", "help", "support", "not working"}

\* A variant that tests the support keywords first.
rule_based_classification_SupportFirst(message) ==
    LET message_lower == lower(message)
    IN  IF \E keyword \in SupportKeywords : Contains(message_lower, keyword)
        THEN "support"
        ELSE IF \E keyword \in SalesKeywords : Contains(message_lower, keyword)
        THEN "sales"
        ELSE "general"

rule_based_classification(message) ==
    LET message_lower == lower(message)
    IN  IF \E keyword \in SalesKeywords : Contains(message_lower, keyword)
        THEN "sales"
        ELSE IF \E keyword \in SupportKeywords : Contains(message_lower, keyword)
        THEN "support"
        ELSE "general"

\* Lines 74-80: language and prompt variant, set before anything else.
classify_preamble(st) ==
    LET message == Get(st, "message", "")
        lang == IF settings.agent_auto_detect_language
                THEN detect_language(message)
                ELSE settings.agent_default_language
    IN  Put(Put(st, "language", lang),
            "prompt_variant", upper(settings.agent_prompt_variant))

\* Lines 85-89: the urgency short-circuit.
classify_urgent(st) ==
    Put(Put(st, "intent", "urgent"), "requires_escalation", TRUE)

\* Lines 100-108: the reply is parsed, or the rules decide.
classify_parse(st, message, response_text) ==
    IF Contains(response_text, "CLASSIFICATION:")
    THEN LET lines == split(response_text, "\n")
             first == CHOOSE i \in 1..Len(lines) :
                        /\ Contains(lines[i], "CLASSIFICATION:")
                        /\ \A j \in 1..(i - 1) : ~Contains(lines[j], "CLASSIFICATION:")
             intent == lower(strip(split(lines[first], ":")[2]))
         IN  Put(Put(st, "intent", intent), "classification_reason", response_text)
    ELSE Put(st, "intent", rule_based_classification(message))

\* A variant whose handler lets the exception leave the node.
classify_except_Reraises(st, message, calls) == Outcome(st, calls, TRUE)

\* A variant whose handler answers "general" without consulting the rules.
classify_except_General(st, message, calls) ==
    Outcome(Put(st, "intent", "general"), calls, FALSE)

\* A variant whose handler issues the failed call once more before the rules decide.
classify_except_Retries(st, message, calls) ==
    Outcome(Put(st, "intent", rule_based_classification(message)),
            calls \o calls, FALSE)

\* Lines 110-112: the handler of a failed provider call.
classify_except(st, message, calls) ==
    Outcome(Put(st, "intent", rule_based_classification(message)), calls, FALSE)

\* Lines 92-115: classification of a message that is not urgent.
classify_intent(st, message, context, b) ==
    IF llm # "None"
    THEN LET call == Invocation("classify_message", CLASSIFICATION_PROMPT,
                                message, context, b)
         IN  IF b.raises
             THEN classify_except(st, message, <<call>>)
             ELSE Outcome(classify_parse(st, message, b.content), <<call>>, FALSE)
    ELSE Outcome(Put(st, "intent", rule_based_classification(message)), <<>>, FALSE)

\* A variant that consults the provider before it looks for urgency.
classify_message_ProviderFirst(st, b) ==
    LET message == Get(st, "message", "")
        s1 == classify_preamble(st)
        context == format_context(Get(st, "conversation_history", <<>>))
    IN  IF llm # "None"
        THEN classify_intent(s1, message, context, b)
        ELSE IF detect_urgency(message)
        THEN Outcome(classify_urgent(s1), <<>>, FALSE)
        ELSE classify_intent(s1, message, context, b)

classify_message(st, b) ==
    LET message == Get(st, "message", "")
        s1 == classify_preamble(st)
        context == format_context(Get(st, "conversation_history", <<>>))
    IN  IF detect_urgency(message)
        THEN Outcome(classify_urgent(s1), <<>>, FALSE)
        ELSE classify_intent(s1, message, context, b)

(***************************************************************************)
(* AgentNodes.retrieve_context                                             *)
(***************************************************************************)
\* A variant that keeps only the latest entry of the history it formatted.
retrieve_context_TrimsHistory(st) ==
    LET history == Get(st, "conversation_history", <<>>)
        s1 == Put(st, "formatted_context", format_context(history))
    IN  Outcome(IF history = <<>>
                THEN s1
                ELSE Put(s1, "conversation_history", <<history[Len(history)]>>),
                <<>>, FALSE)

retrieve_context(st) ==
    Outcome(Put(st, "formatted_context",
                format_context(Get(st, "conversation_history", <<>>))),
            <<>>, FALSE)

(***************************************************************************)
(* AgentNodes.generate_response                                            *)
(***************************************************************************)
PromptMapping ==
    [support_A |-> SUPPORT_RESPONSE_PROMPT_A,
     support_B |-> SUPPORT_RESPONSE_PROMPT_B,
     sales_A   |-> SALES_RESPONSE_PROMPT_A,
     sales_B   |-> SALES_RESPONSE_PROMPT_B,
     general_A |-> GENERAL_RESPONSE_PROMPT_A,
     general_B |-> GENERAL_RESPONSE_PROMPT_B]

\* A variant that always takes the A template of the intent.
get_prompt_for_intent_AlwaysA(intent, variant) ==
    Get(PromptMapping, select_prompt_variant(intent, "A"), GENERAL_RESPONSE_PROMPT_A)

get_prompt_for_intent(intent, variant) ==
    Get(PromptMapping, select_prompt_variant(intent, variant), GENERAL_RESPONSE_PROMPT_A)

wrap_prompt_with_language_hint(base_prompt, language) ==
    IF language = "" \/ language = "en"
    THEN base_prompt
    ELSE "You MUST answer in language code '" \o language \o "'.\n\n" \o base_prompt

\* MOCK_RESPONSES.get(intent, MOCK_RESPONSES["general"])
mock_response(intent) == Get(MOCK_RESPONSES, intent, MOCK_RESPONSES["general"])

\* A variant that looks at the intent only.
generate_escalates_IntentOnly(st, intent) == intent = "urgent"

\* Line 200: the condition of the escalation branch.
generate_escalates(st, intent) == intent = "urgent" \/ Flag(st)

\* A variant whose escalation branch writes the response only.
generate_escalation_ResponseOnly(st) ==
    Put(st, "response", ESCALATION_MESSAGE)

\* Lines 201-203: the escalation branch.
generate_escalation(st) ==
    Put(Put(st, "response", ESCALATION_MESSAGE), "requires_escalation", TRUE)

\* A variant whose handler always answers with the general mock response.
generate_except_General(intent) ==
    [final_text |-> MOCK_RESPONSES["general"], raised |-> FALSE]

\* Lines 217-219: the handler of a failed provider call.
generate_except(intent) == [final_text |-> mock_response(intent), raised |-> FALSE]

\* Lines 210-222: the text before tone adjustment, and the calls made for it.
generate_text(intent, prompt_template, message, context, b) ==
    IF llm # "None"
    THEN LET call == Invocation("generate_response", prompt_template,
                                message, context, b)
             got == IF b.raises
                    THEN generate_except(intent)
                    ELSE [final_text |-> b.content, raised |-> FALSE]
         IN  [final_text |-> got.final_text, calls |-> <<call>>, raised |-> got.raised]
    ELSE [final_text |-> mock_response(intent), calls |-> <<>>, raised |-> FALSE]

generate_response(st, b) ==
    LET intent == Get(st, "intent", "general")
        message == Get(st, "message", "")
        context == Get(st, "formatted_context", "")
        language == Get(st, "language", settings.agent_default_language)
        variant == Get(st, "prompt_variant", upper(settings.agent_prompt_variant))
        sentiment == Get(st, "sentiment_score", 0)
    IN  IF generate_escalates(st, intent)
        THEN Outcome(generate_escalation(st), <<>>, FALSE)
        ELSE LET base_prompt_template == get_prompt_for_intent(intent, variant)
                 prompt_template ==
                     wrap_prompt_with_language_hint(base_prompt_template, language)
                 got == generate_text(intent, prompt_template, message, context, b)
             IN  IF got.raised
                 THEN Outcome(st, got.calls, TRUE)
                 ELSE Outcome(Put(st, "response",
                                  adjust_response_for_sentiment(got.final_text, sentiment)),
                              got.calls, FALSE)

(***************************************************************************)
(* AgentNodes.check_escalation                                             *)
(***************************************************************************)
\* Line 254: the score (in tenths) at or below which a message escalates.
ESCALATION_SENTIMENT == -6

\* A variant that returns for an urgent intent before scoring the sentiment.
escalation_urgent_NoSentiment(st, message) ==
    Put(Put(st, "requires_escalation", TRUE), "escalation_reason", URGENT_REASON)

\* Lines 243-248: the branch of an urgent intent.
escalation_urgent(st, message) ==
    Put(Put(Put(st, "requires_escalation", TRUE),
            "escalation_reason", URGENT_REASON),
        "sentiment_score", extract_sentiment_indicators(message))

\* A variant that also replaces the response when the sentiment escalates.
escalation_by_sentiment_RewritesResponse(st, message) ==
    LET sentiment == extract_sentiment_indicators(message)
        s1 == Put(st, "sentiment_score", sentiment)
    IN  IF sentiment <= ESCALATION_SENTIMENT
        THEN Put(Put(Put(s1, "requires_escalation", TRUE),
                     "escalation_reason", NEGATIVE_SENTIMENT_REASON),
                 "response", ESCALATION_MESSAGE)
        ELSE Put(s1, "requires_escalation", Get(s1, "requires_escalation", FALSE))

\* A variant whose threshold is strict: the boundary score does not escalate.
escalation_by_sentiment_Strict(st, message) ==
    LET sentiment == extract_sentiment_indicators(message)
        s1 == Put(st, "sentiment_score", sentiment)
    IN  IF sentiment < ESCALATION_SENTIMENT
        THEN Put(Put(s1, "requires_escalation", TRUE),
                 "escalation_reason", NEGATIVE_SENTIMENT_REASON)
        ELSE Put(s1, "requires_escalation", Get(s1, "requires_escalation", FALSE))

\* Lines 251-262: the branch of every other intent.
escalation_by_sentiment(st, message) ==
    LET sentiment == extract_sentiment_indicators(message)
        s1 == Put(st, "sentiment_score", sentiment)
    IN  IF sentiment <= ESCALATION_SENTIMENT
        THEN Put(Put(s1, "requires_escalation", TRUE),
                 "escalation_reason", NEGATIVE_SENTIMENT_REASON)
        ELSE Put(s1, "requires_escalation", Get(s1, "requires_escalation", FALSE))

check_escalation(st) ==
    LET intent == Get(st, "intent", "")
        message == Get(st, "message", "")
    IN  Outcome(IF intent = "urgent"
                THEN escalation_urgent(st, message)
                ELSE escalation_by_sentiment(st, message),
                <<>>, FALSE)

(***************************************************************************)
(* AgentNodes.validate_response                                            *)
(***************************************************************************)
MIN_RESPONSE_LENGTH == 10

\* A variant whose upper limit is the length of the escalation message.
MAX_RESPONSE_LENGTH_Short == Len(ESCALATION_MESSAGE)

MAX_RESPONSE_LENGTH == 1000

\* A variant whose lower limit is inclusive.
is_valid_Inclusive(response) ==
    /\ Len(response) >= MIN_RESPONSE_LENGTH
    /\ Len(response) < MAX_RESPONSE_LENGTH
    /\ strip(response) # ""

\* Lines 279-283.
is_valid(response) ==
    /\ Len(response) > MIN_RESPONSE_LENGTH
    /\ Len(response) < MAX_RESPONSE_LENGTH
    /\ strip(response) # ""

\* A variant that raises the flag on rejection but keeps the rejected text.
validate_update_KeepsResponse(st, valid) ==
    LET s1 == Put(st, "response_valid", valid)
    IN  IF ~valid THEN Put(s1, "requires_escalation", TRUE) ELSE s1

\* A variant that replaces the rejected text but does not raise the flag.
validate_update_KeepsFlag(st, valid) ==
    LET s1 == Put(st, "response_valid", valid)
    IN  IF ~valid THEN Put(s1, "response", HANDOFF_APOLOGY) ELSE s1

\* A variant that assigns the flag from the verdict instead of only raising it.
validate_update_AssignsFlag(st, valid) ==
    LET s1 == Put(st, "response_valid", valid)
    IN  IF ~valid
        THEN Put(Put(s1, "response", HANDOFF_APOLOGY), "requires_escalation", TRUE)
        ELSE Put(s1, "requires_escalation", FALSE)

\* Lines 285-290: the fields validation writes.
validate_update(st, valid) ==
    LET s1 == Put(st, "response_valid", valid)
    IN  IF ~valid
        THEN Put(Put(s1, "response", HANDOFF_APOLOGY), "requires_escalation", TRUE)
        ELSE s1

validate_response(st) ==
    Outcome(validate_update(st, is_valid(Get(st, "response", ""))), <<>>, FALSE)

(***************************************************************************)
(* Inputs: the inbound messages, the histories, the configuration and the  *)
(* provider's possible behaviours.                                         *)
(***************************************************************************)
Words == {"Pricing", "ORDER", "ridiculous", "terrible", "awful"}

LiteralMessages ==
    {"What's the pricing for your enterprise plan?",
     "This is ridiculous!!! I've been charged twice!",
     "Thank you so much! This is great!",
     "Hola, necesito ayuda",
     "I have a question"}

\* Every message of at most MaxWords words (the empty message included).
WordMessages ==
    {join(ws, " ") : ws \in UNION {[1..n -> Words] : n \in 0..MaxWords}}

Messages == WordMessages \cup LiteralMessages

Histories ==
    {<<>>,
     <<[sender_type |-> "user", content |-> "Hello"],
       [sender_type |-> "agent", content |-> "Hi there!"]>>}

\* app/config.py, the agent options the nodes read.
SettingsSpace ==
    [agent_auto_detect_language : BOOLEAN,
     agent_default_language : {"en", "es"},
     agent_prompt_variant : {"A", "b"}]

\* self.llm after _initialize_llm: no client, or a chat model client.
Providers == {"None", "ChatModel"}

ClassificationReplies ==
    {"CLASSIFICATION: SUPPORT\nREASON: The customer asks for help.",
     "CLASSIFICATION: sales",
     "Sure.\nCLASSIFICATION: General\nREASON: A greeting.",
     "CLASSIFICATION: URGENT\nREASON: The customer is upset.",
     "CLASSIFICATION: BILLING\nREASON: A billing question.",
     "This looks like a sales question."}

GenerationReplies ==
    {"Hi",
     "Happy to help! Could you share a few more details?",
     ""}

ClassifyBehaviours == {Raises} \cup {Reply(t) : t \in ClassificationReplies}
GenerateBehaviours == {Raises} \cup {Reply(t) : t \in GenerationReplies}

(***************************************************************************)
(* The workflow: one run of the five nodes over one RequestState.          *)
(***************************************************************************)
\* A variant with a retry loop from validation back to generation.
Edge_Retry ==
    [Received          |-> "Classified",
     Classified        |-> "ContextReady",
     ContextReady      |-> "Generated",
     Generated         |-> "EscalationChecked",
     EscalationChecked |-> "Validated",
     Validated         |-> "ContextReady"]

\* The stage reached when the node that runs at a stage has returned.
Edge ==
    [Received          |-> "Classified",
     Classified        |-> "ContextReady",
     ContextReady      |-> "Generated",
     Generated         |-> "EscalationChecked",
     EscalationChecked |-> "Validated",
     Validated         |-> "Done"]

\* A node has run with outcome r; an exception that leaves it ends the run.
Run(node, r, to) ==
    /\ state' = r.state
    /\ prev' = state
    /\ last' = node
    /\ invocations' = invocations \o r.calls
    /\ pc' = IF r.raised THEN "Aborted" ELSE to
    /\ UNCHANGED <<llm, settings>>

Init ==
    /\ \E m \in Messages, h \in Histories :
         state = [message |-> m, conversation_history |-> h]
    /\ prev = state
    /\ last = "none"
    /\ pc = "Received"
    /\ llm \in Providers
    /\ settings \in SettingsSpace
    /\ invocations = <<>>

Classify ==
    /\ pc = "Received"
    /\ \E b \in ClassifyBehaviours :
         Run("classify_message", classify_message(state, b), Edge[pc])

RetrieveContext ==
    /\ pc = "Classified"
    /\ Run("retrieve_context", retrieve_context(state), Edge[pc])

Generate ==
    /\ pc = "ContextReady"
    /\ \E b \in GenerateBehaviours :
         Run("generate_response", generate_response(state, b), Edge[pc])

CheckEscalation ==
    /\ pc = "Generated"
    /\ Run("check_escalation", check_escalation(state), Edge[pc])

Validate ==
    /\ pc = "EscalationChecked"
    /\ Run("validate_response", validate_response(state), Edge[pc])

\* The workflow ends and hands the final RequestState to the caller.
Finish ==
    /\ pc = "Validated"
    /\ pc' = Edge[pc]
    /\ UNCHANGED <<state, prev, last, llm, settings, invocations>>

Next ==
    \/ Classify
    \/ RetrieveContext
    \/ Generate
    \/ CheckEscalation
    \/ Validate
    \/ Finish

Spec == Init /\ [][Next]_vars

\* The workflow moves on: at a stage that has a successor, it is there next.
Advance == pc \in DOMAIN Edge /\ pc' = Edge[pc]

\* The workflow runs every node to completion and then the following one, so
\* a run that stands at a stage with a successor does eventually reach it.
FairSpec == Spec /\ WF_pc(Advance)

(***************************************************************************)
(* The workflow with a provider that may leave a call unanswered.  The     *)
(* clients are built from api_key, model, temperature and max_tokens       *)
(* (lines 41-54); agent_timeout_seconds is not passed to them, so nothing  *)
(* in the node ends a call the provider does not answer.                   *)
(***************************************************************************)
\* self.llm.invoke(...) has not returned and has not raised.
NoAnswer == [raises |-> FALSE, content |-> "", unanswered |-> TRUE]

\* classify_message has written language and prompt_variant and waits in
\* the provider call of line 95.
ClassifyUnanswered ==
    /\ pc = "Received"
    /\ llm # "None"
    /\ ~detect_urgency(Get(state, "message", ""))
    /\ state' = classify_preamble(state)
    /\ prev' = state
    /\ last' = "classify_message"
    /\ invocations' = invocations \o
           <<Invocation("classify_message", CLASSIFICATION_PROMPT,
                        Get(state, "message", ""),
                        format_context(Get(state, "conversation_history", <<>>)),
                        NoAnswer)>>
    /\ pc' = "Waiting"
    /\ UNCHANGED <<llm, settings>>

\* generate_response waits in the provider call of line 213.
GenerateUnanswered ==
    /\ pc = "ContextReady"
    /\ llm # "None"
    /\ ~generate_escalates(state, Get(state, "intent", "general"))
    /\ prev' = state
    /\ last' = "generate_response"
    /\ invocations' = invocations \o
           <<Invocation("generate_response",
                        wrap_prompt_with_language_hint(
                            get_prompt_for_intent(
                                Get(state, "intent", "general"),
                                Get(state, "prompt_variant",
                                    upper(settings.agent_prompt_variant))),
                            Get(state, "language", settings.agent_default_language)),
                        Get(state, "message", ""),
                        Get(state, "formatted_context", ""),
                        NoAnswer)>>
    /\ pc' = "Waiting"
    /\ UNCHANGED <<state, llm, settings>>

UnansweredNext ==
    \/ Next
    \/ ClassifyUnanswered
    \/ GenerateUnanswered

UnansweredSpec == Init /\ [][UnansweredNext]_vars /\ WF_pc(Advance)

(***************************************************************************)
(* Two workflow invocations on one AgentNodes instance, their stages       *)
(* interleaved in every order.  Here state, prev and pc hold one entry per *)
(* invocation; llm and settings are the instance's and the module's, and   *)
(* are shared.                                                             *)
(***************************************************************************)
Invocations == {1, 2}

\* The node that runs at a stage.
StageNode ==
    [Received          |-> "classify_message",
     Classified        |-> "retrieve_context",
     ContextReady      |-> "generate_response",
     Generated         |-> "check_escalation",
     EscalationChecked |-> "validate_response"]

NodeOutcome(node, st, b) ==
    CASE node = "classify_message" -> classify_message(st, b)
      [] node = "retrieve_context" -> retrieve_context(st)
      [] node = "generate_response" -> generate_response(st, b)
      [] node = "check_escalation" -> check_escalation(st)
      [] node = "validate_response" -> validate_response(st)

PairBehaviours(node) ==
    CASE node = "classify_message" ->
             {Raises, Reply("CLASSIFICATION: sales"),
              Reply("CLASSIFICATION: URGENT\nREASON: The customer is upset.")}
      [] node = "generate_response" ->
             {Raises, Reply("Hi"),
              Reply("Happy to help! Could you share a few more details?")}
      [] OTHER -> {Raises}

\* The messages of the two invocations; the two sets are disjoint.
PairMessages ==
    <<{"What's the pricing for your enterprise plan?"},
      {"This is ridiculous!!! I've been charged twice!", "terrible awful"}>>

\* A variant in which a node's writes of intent also land in the other record.
Store_SharedIntent(states, r, st) ==
    [q \in DOMAIN states |->
        IF q = r THEN st
        ELSE IF "intent" \in DOMAIN st THEN Put(states[q], "intent", st.intent)
        ELSE states[q]]

\* A node writes into the dict it was handed, and nowhere else.
Store(states, r, st) == [states EXCEPT ![r] = st]

PairInit ==
    /\ state \in {<<[message |-> m1, conversation_history |-> h1],
                    [message |-> m2, conversation_history |-> h2]>> :
                      m1 \in PairMessages[1], m2 \in PairMessages[2],
                      h1 \in {<<>>}, h2 \in Histories}
    /\ prev = state
    /\ last = "none"
    /\ pc = <<"Received", "Received">>
    /\ llm \in Providers
    /\ settings \in {s \in SettingsSpace : s.agent_prompt_variant = "A"
                                           /\ s.agent_auto_detect_language}
    /\ invocations = <<>>

PairRun(r) ==
    /\ pc[r] \in DOMAIN StageNode
    /\ \E b \in PairBehaviours(StageNode[pc[r]]) :
         LET o == NodeOutcome(StageNode[pc[r]], state[r], b)
         IN  /\ state' = Store(state, r, o.state)
             /\ invocations' = invocations \o o.calls
             /\ pc' = [pc EXCEPT ![r] = IF o.raised THEN "Aborted" ELSE Edge[pc[r]]]
    /\ last' = StageNode[pc[r]]
    /\ UNCHANGED <<prev, llm, settings>>

PairFinish(r) ==
    /\ pc[r] = "Validated"
    /\ pc' = [pc EXCEPT ![r] = Edge[pc[r]]]
    /\ UNCHANGED <<state, prev, last, llm, settings, invocations>>

PairNext == \E r \in Invocations : PairRun(r) \/ PairFinish(r)

PairSpec == PairInit /\ [][PairNext]_vars

(***************************************************************************)
(* The nodes called one at a time on an arbitrary RequestState, as the     *)
(* unit tests call them: any of the optional keys may be absent.           *)
(***************************************************************************)
NodeMessages ==
    {"I have a question",
     "This is terrible!",
     "terrible awful",
     "This is ridiculous, terrible and awful!!!"}

NodeSettings == {s \in SettingsSpace : s.agent_default_language = "en"}

\* No value (the key is absent), or one value of S.
Optional(S) == {<<>>} \cup {<<v>> : v \in S}

NodeState(m, i, f, s, r) ==
    LET keys == {"message"}
                  \cup (IF i # <<>> THEN {"intent"} ELSE {})
                  \cup (IF f # <<>> THEN {"requires_escalation"} ELSE {})
                  \cup (IF s # <<>> THEN {"sentiment_score"} ELSE {})
                  \cup (IF r # <<>> THEN {"response"} ELSE {})
    IN  [k \in keys |->
           CASE k = "message" -> m
             [] k = "intent" -> i[1]
             [] k = "requires_escalation" -> f[1]
             [] k = "sentiment_score" -> s[1]
             [] k = "response" -> r[1]]

NodeStates ==
    {NodeState(m, i, f, s, r) :
        m \in NodeMessages,
        i \in Optional(Intents \cup {"billing"}),
        f \in Optional(BOOLEAN),
        s \in Optional({-8, 0}),
        r \in Optional({"Hi", "Happy to help! Could you share a few more details?"})}

NodeInit ==
    /\ state \in NodeStates
    /\ prev = state
    /\ last = "none"
    /\ pc = "Call"
    /\ llm \in Providers
    /\ settings \in NodeSettings
    /\ invocations = <<>>

CallClassify ==
    /\ pc = "Call"
    /\ \E b \in ClassifyBehaviours :
         Run("classify_message", classify_message(state, b), "Returned")

CallRetrieveContext ==
    /\ pc = "Call"
    /\ Run("retrieve_context", retrieve_context(state), "Returned")

CallGenerate ==
    /\ pc = "Call"
    /\ \E b \in GenerateBehaviours :
         Run("generate_response", generate_response(state, b), "Returned")

CallCheckEscalation ==
    /\ pc = "Call"
    /\ Run("check_escalation", check_escalation(state), "Returned")

CallValidate ==
    /\ pc = "Call"
    /\ Run("validate_response", validate_response(state), "Returned")

NodeNext ==
    \/ CallClassify
    \/ CallRetrieveContext
    \/ CallGenerate
    \/ CallCheckEscalation
    \/ CallValidate

NodeSpec == NodeInit /\ [][NodeNext]_vars

(***************************************************************************)
(* validate_response called on responses whose lengths lie around the two  *)
(* limits of the acceptance rule.                                          *)
(***************************************************************************)
\* How far around each limit the lengths of the responses range.
Margin == 2

\* s * n
RECURSIVE Repeat(_, _)
Repeat(s, n) ==
    IF n = 0 THEN ""
    ELSE LET half == Repeat(s, n \div 2)
         IN  half \o half \o (IF n % 2 = 1 THEN s ELSE "")

ValidateLengths ==
    {0, 1}
        \cup ((MIN_RESPONSE_LENGTH - Margin)..(MIN_RESPONSE_LENGTH + Margin))
        \cup ((MAX_RESPONSE_LENGTH - Margin)..(MAX_RESPONSE_LENGTH + Margin))

\* For each length: a solid text, a text of spaces, a text of tabs and
\* newlines, and a text that is blank except for its last character.
ValidateResponses ==
    UNION {{Repeat("x", n),
            Repeat(" ", n),
            Repeat("\t\n", n \div 2) \o Repeat("\t", n % 2),
            Repeat(" ", n - 1) \o "x"} : n \in ValidateLengths \ {0}}
        \cup {""}

ValidateStates ==
    {NodeState("I have a question", <<>>, f, <<>>, r) :
        f \in Optional(BOOLEAN), r \in Optional(ValidateResponses)}

ValidateInit ==
    /\ state \in ValidateStates
    /\ prev = state
    /\ last = "none"
    /\ pc = "Call"
    /\ llm \in Providers
    /\ settings \in NodeSettings
    /\ invocations = <<>>

ValidateNext == CallValidate

ValidateSpec == ValidateInit /\ [][ValidateNext]_vars

(***************************************************************************)
(* generate_response called on states that carry their own intent,         *)
(* prompt_variant and language, under every configuration.                 *)
(***************************************************************************)
PromptState(i, v, l) ==
    LET keys == {"message"}
                  \cup (IF i # <<>> THEN {"intent"} ELSE {})
                  \cup (IF v # <<>> THEN {"prompt_variant"} ELSE {})
                  \cup (IF l # <<>> THEN {"language"} ELSE {})
    IN  [k \in keys |->
           CASE k = "message" -> "I have a question"
             [] k = "intent" -> i[1]
             [] k = "prompt_variant" -> v[1]
             [] k = "language" -> l[1]]

PromptStates ==
    {PromptState(i, v, l) :
        i \in Optional(Intents \cup {"billing"}),
        v \in Optional({"A", "B", "Z"}),
        l \in Optional({"en", "es"})}

PromptInit ==
    /\ state \in PromptStates
    /\ prev = state
    /\ last = "none"
    /\ pc = "Call"
    /\ llm \in Providers
    /\ settings \in SettingsSpace
    /\ invocations = <<>>

PromptNext == CallGenerate

PromptSpec == PromptInit /\ [][PromptNext]_vars

(***************************************************************************)
(* classify_message called under every value the configuration accepts:   *)
(* agent_prompt_variant is a plain string option, so values other than A   *)
(* and B can be configured.                                                *)
(***************************************************************************)
VariantSettings ==
    [agent_auto_detect_language : BOOLEAN,
     agent_default_language : {"en", "es"},
     agent_prompt_variant : {"A", "b", "z"}]

VariantMessages ==
    {"I have a question",
     "This is ridiculous!!! I've been charged twice!",
     "Hola, necesito ayuda con mi pedido"}

VariantInit ==
    /\ state \in {[message |-> m] : m \in VariantMessages}
    /\ prev = state
    /\ last = "none"
    /\ pc = "Call"
    /\ llm \in Providers
    /\ settings \in VariantSettings
    /\ invocations = <<>>

VariantNext == CallClassify

VariantSpec == VariantInit /\ [][VariantNext]_vars

(***************************************************************************)
(* check_escalation, and with it extract_sentiment_indicators, called on   *)
(* every combination of lexicon terms.                                     *)
(***************************************************************************)
SentimentTokens ==
    <<"Thank", "GREAT", "love", "terrible", "AWFUL", "unacceptable",
      "ridiculous", "order">>

\* The tokens with an index in S from position i on, each followed by a space.
RECURSIVE Phrase(_, _)
Phrase(S, i) ==
    IF i > Len(SentimentTokens) THEN ""
    ELSE (IF i \in S THEN SentimentTokens[i] \o " " ELSE "") \o Phrase(S, i + 1)

SentimentTexts == {Phrase(S, 1) : S \in SUBSET (1..Len(SentimentTokens))}

SentimentInit ==
    /\ state \in {[message |-> t] : t \in SentimentTexts}
    /\ prev = state
    /\ last = "none"
    /\ pc = "Call"
    /\ llm \in Providers
    /\ settings \in NodeSettings
    /\ invocations = <<>>

SentimentNext == CallCheckEscalation

SentimentSpec == SentimentInit /\ [][SentimentNext]_vars

(***************************************************************************)
(* app/integrations/llm_router.py: the process-wide provider handle.  In   *)
(* the specifications of this section state holds the module globals       *)
(* _llm_instance and _llm_provider, prev holds them as they were before    *)
(* the latest call, llm is what the latest get_llm_cached call returned,   *)
(* invocations lists the get_llm calls and last lists the completed calls. *)
(* None is the empty tuple, any other value v is <<v>>.                    *)
(***************************************************************************)
\* How many calls of the router's functions one behaviour makes.
MaxCalls == 3

\* app/config.py: llm_provider and the API keys that are set.
RouterSettings ==
    [llm_provider : {"mock", "openai"},
     api_keys : {{"openai"}, {"openai", "openrouter"}}]

\* The provider argument of a call: None (the default) or a name.
RequestedProviders ==
    {<<>>, <<"openai">>, <<" ChatGPT">>, <<"openrouter">>, <<"anthropic">>,
     <<"mock">>, <<"bogus">>}

\* Lines 75-93, 114-132, 153-171: the key check and the constructor call of
\* get_openrouter_llm, get_chatgpt_llm and get_claude_llm.
construct(class, key, id) ==
    IF key \in settings.api_keys
    THEN [raised |-> FALSE, value |-> <<[id |-> id, class |-> class]>>]
    ELSE [raised |-> TRUE, value |-> <<>>]

\* provider or settings.llm_provider
provider_or_default(provider) ==
    IF provider # <<>> /\ provider[1] # "" THEN provider[1] ELSE settings.llm_provider

get_llm(provider, id) ==
    LET p == strip(lower(provider_or_default(provider)))
    IN  CASE p \in {"openrouter", "open_router"} -> construct("ChatOpenRouter", "openrouter", id)
          [] p \in {"openai", "chatgpt", "gpt"} -> construct("ChatOpenAI", "openai", id)
          [] p \in {"anthropic", "claude"} -> construct("ChatAnthropic", "anthropic", id)
          [] p = "mock" -> [raised |-> FALSE, value |-> <<>>]
          [] OTHER -> [raised |-> TRUE, value |-> <<>>]

\* A variant that reuses a handle whatever provider it was built for.
cache_hit_AnyProvider(cache, current_provider) ==
    cache["_llm_instance"] # <<>>

\* A variant that never reuses the handle.
cache_hit_Never(cache, current_provider) == FALSE

\* Line 244: the cached handle can be returned.
cache_hit(cache, current_provider) ==
    /\ cache["_llm_instance"] # <<>>
    /\ cache["_llm_provider"] = <<current_provider>>

\* A variant that records the provider before it constructs the handle.
get_llm_cached_ProviderFirst(cache, provider, id) ==
    LET current_provider == provider_or_default(provider)
    IN  IF cache_hit(cache, current_provider)
        THEN [cache |-> cache, result |-> cache["_llm_instance"],
              raised |-> FALSE, calls |-> <<>>]
        ELSE LET built == get_llm(provider, id)
                 call == [provider |-> current_provider, outcome |-> built]
                 recorded == Put(cache, "_llm_provider", <<current_provider>>)
             IN  IF built.raised
                 THEN [cache |-> recorded, result |-> <<>>,
                       raised |-> TRUE, calls |-> <<call>>]
                 ELSE [cache |-> Put(recorded, "_llm_instance", built.value),
                       result |-> built.value,
                       raised |-> FALSE, calls |-> <<call>>]

\* Lines 239-253; an exception of get_llm leaves the function at line 250,
\* before either global is assigned.
get_llm_cached(cache, provider, id) ==
    LET current_provider == provider_or_default(provider)
    IN  IF cache_hit(cache, current_provider)
        THEN [cache |-> cache, result |-> cache["_llm_instance"],
              raised |-> FALSE, calls |-> <<>>]
        ELSE LET built == get_llm(provider, id)
                 call == [provider |-> current_provider, outcome |-> built]
             IN  IF built.raised
                 THEN [cache |-> cache, result |-> <<>>,
                       raised |-> TRUE, calls |-> <<call>>]
                 ELSE [cache |-> Put(Put(cache, "_llm_instance", built.value),
                                     "_llm_provider", <<current_provider>>),
                       result |-> built.value,
                       raised |-> FALSE, calls |-> <<call>>]

\* Lines 224-225 and 256-261.
EmptyCache == ("_llm_instance" :> <<>>) @@ ("_llm_provider" :> <<>>)

reset_llm_cache(cache) == EmptyCache

CacheInit ==
    /\ state = EmptyCache
    /\ prev = state
    /\ last = <<>>
    /\ pc = "Ready"
    /\ llm = <<>>
    /\ settings \in RouterSettings
    /\ invocations = <<>>

CallGetLlmCached ==
    /\ pc = "Ready"
    /\ Len(last) < MaxCalls
    /\ \E provider \in RequestedProviders :
         LET r == get_llm_cached(state, provider, Len(invocations) + 1)
         IN  /\ state' = r.cache
             /\ llm' = r.result
             /\ invocations' = invocations \o r.calls
             /\ last' = Append(last, [op |-> "get_llm_cached",
                                      provider |-> provider_or_default(provider),
                                      result |-> r.result,
                                      raised |-> r.raised,
                                      calls |-> Len(r.calls)])
    /\ prev' = state
    /\ UNCHANGED <<pc, settings>>

CallResetLlmCache ==
    /\ pc = "Ready"
    /\ Len(last) < MaxCalls
    /\ state' = reset_llm_cache(state)
    /\ prev' = state
    /\ last' = Append(last, [op |-> "reset_llm_cache", provider |-> "",
                             result |-> <<>>, raised |-> FALSE, calls |-> 0])
    /\ UNCHANGED <<pc, llm, settings, invocations>>

CacheNext ==
    \/ CallGetLlmCached
    \/ CallResetLlmCache

CacheSpec == CacheInit /\ [][CacheNext]_vars

(***************************************************************************)
(* Two threads, each in one get_llm_cached call on an empty cache.  The    *)
(* function takes no lock, so the threads interleave between any two of    *)
(* its reads and writes of the globals.  Here pc, prev and llm hold one    *)
(* entry per thread: the position in the function, the locals (the         *)
(* provider asked for and the handle built), and the value returned.       *)
(***************************************************************************)
Threads == {1, 2}

ThreadProviders == {"openai", "openrouter", "mock"}

ThreadInit ==
    /\ state = EmptyCache
    /\ prev \in [Threads -> [provider : ThreadProviders, built : {<<>>}]]
    /\ last = "none"
    /\ pc = [t \in Threads |-> "test_instance"]
    /\ llm = [t \in Threads |-> <<>>]
    /\ settings \in RouterSettings
    /\ invocations = <<>>

\* Line 244, left operand: _llm_instance is not None
TestInstance(t) ==
    /\ pc[t] = "test_instance"
    /\ pc' = [pc EXCEPT ![t] = IF state["_llm_instance"] # <<>>
                               THEN "test_provider" ELSE "build"]
    /\ last' = "test_instance"
    /\ UNCHANGED <<state, prev, llm, settings, invocations>>

\* Line 244, right operand: _llm_provider == current_provider
TestProvider(t) ==
    /\ pc[t] = "test_provider"
    /\ pc' = [pc EXCEPT ![t] = IF state["_llm_provider"] = <<prev[t].provider>>
                               THEN "return" ELSE "build"]
    /\ last' = "test_provider"
    /\ UNCHANGED <<state, prev, llm, settings, invocations>>

\* Line 250, right-hand side: get_llm(provider=provider, **kwargs)
Build(t) ==
    /\ pc[t] = "build"
    /\ LET built == get_llm(<<prev[t].provider>>, Len(invocations) + 1)
       IN  /\ invocations' = Append(invocations,
                                    [provider |-> prev[t].provider, outcome |-> built])
           /\ prev' = [prev EXCEPT ![t].built = built.value]
           /\ pc' = [pc EXCEPT ![t] = IF built.raised THEN "raised"
                                      ELSE "assign_instance"]
    /\ last' = "build"
    /\ UNCHANGED <<state, llm, settings>>

\* Line 250, the assignment to _llm_instance.
AssignInstance(t) ==
    /\ pc[t] = "assign_instance"
    /\ state' = Put(state, "_llm_instance", prev[t].built)
    /\ pc' = [pc EXCEPT ![t] = "assign_provider"]
    /\ last' = "assign_instance"
    /\ UNCHANGED <<prev, llm, settings, invocations>>

\* Line 251.
AssignProvider(t) ==
    /\ pc[t] = "assign_provider"
    /\ state' = Put(state, "_llm_provider", <<prev[t].provider>>)
    /\ pc' = [pc EXCEPT ![t] = "return"]
    /\ last' = "assign_provider"
    /\ UNCHANGED <<prev, llm, settings, invocations>>

\* Lines 246 and 253: return _llm_instance
Return(t) ==
    /\ pc[t] = "return"
    /\ llm' = [llm EXCEPT ![t] = state["_llm_instance"]]
    /\ pc' = [pc EXCEPT ![t] = "returned"]
    /\ last' = "return"
    /\ UNCHANGED <<state, prev, settings, invocations>>

ThreadNext ==
    \E t \in Threads :
        \/ TestInstance(t)
        \/ TestProvider(t)
        \/ Build(t)
        \/ AssignInstance(t)
        \/ AssignProvider(t)
        \/ Return(t)

ThreadSpec == ThreadInit /\ [][ThreadNext]_vars

(***************************************************************************)
(* app/api/routes/messages.py and app/services/tasks.py: POST              *)
(* /messages/send and the Celery task send_message_task.  In the           *)
(* specification of this section state holds the database (the message     *)
(* rows), the broker's queue and the number of requests and task runs      *)
(* served; prev holds it as it was before the latest one; last is the      *)
(* latest HTTP response or task result; invocations lists the calls of     *)
(* send_message_to_platform.                                               *)
(***************************************************************************)
\* How many requests and task runs one behaviour serves.
MaxServed == 3

\* The conversations in the database, and the ids requests name.
Conversations == {7}
RequestedConversations == {7, 99999}

\* The values of the Platform enum, and the strings requests and tasks carry.
Platforms == {"tiktok", "linkedin"}
PlatformStrings == {"tiktok", "linkedin", "fax"}

\* send_message_task.delay(...) returns a task, or raises (broker unreachable).
EnqueueOutcomes == {"queued", "raises"}

\* send_message_to_platform(...) returns True or False, or raises.
DeliveryOutcomes == {"True", "False", "raises"}

\* Lines 51-57 of messages.py: the row of the outbound message.
new_message(db, conversation_id) ==
    [id |-> Len(db.messages) + 1,
     conversation_id |-> conversation_id,
     direction |-> "OUTBOUND",
     status |-> "QUEUED"]

\* A variant that passes the conversation's id as the message id.
queued_task_ForConversation(db, message, platform) ==
    [job_id |-> Len(db.queue) + 1,
     message_id |-> message.conversation_id,
     platform |-> platform]

\* Lines 64-70 of messages.py: the task handed to the broker.
queued_task(db, message, platform) ==
    [job_id |-> Len(db.queue) + 1,
     message_id |-> message.id,
     platform |-> platform]

\* Lines 82-87 of messages.py: the answer of the generic handler.
send_failure == [op |-> "send_message", status_code |-> 202, success |-> FALSE,
                 message_id |-> <<>>, job_id |-> <<>>]

\* Lines 41-87 of messages.py.
send_message(db, conversation_id, platform, enqueue) ==
    IF conversation_id \notin Conversations
    THEN [db |-> db,
          response |-> [op |-> "send_message", status_code |-> 404,
                        success |-> FALSE, message_id |-> <<>>, job_id |-> <<>>]]
    ELSE LET message == new_message(db, conversation_id)
             committed == [db EXCEPT !.messages = Append(@, message)]
         IN  IF platform \notin Platforms \/ enqueue = "raises"
             THEN [db |-> committed, response |-> send_failure]
             ELSE LET task == queued_task(committed, message, platform)
                  IN  [db |-> [committed EXCEPT !.queue = Append(@, task)],
                       response |-> [op |-> "send_message", status_code |-> 202,
                                     success |-> TRUE,
                                     message_id |-> <<message.id>>,
                                     job_id |-> <<task.job_id>>]]

\* A variant that leaves the status alone when delivery raises.
status_after_RaiseKeepsQueued(delivery) ==
    CASE delivery = "True" -> "SENT"
      [] delivery = "False" -> "FAILED"
      [] OTHER -> "QUEUED"

\* Lines 152-157 and 163-170 of tasks.py: the status the task commits last.
status_after(delivery) == IF delivery = "True" THEN "SENT" ELSE "FAILED"

set_status(db, message_id, status) ==
    [db EXCEPT !.messages[message_id].status = status]

\* Lines 124-177 of tasks.py.
send_message_task(db, message_id, platform, delivery) ==
    LET found == message_id \in 1..Len(db.messages)
    IN  IF platform \notin Platforms
        THEN [db |-> IF found THEN set_status(db, message_id, "FAILED") ELSE db,
              calls |-> <<>>,
              result |-> [op |-> "send_message_task", status |-> "error"]]
        ELSE IF ~found
        THEN [db |-> db, calls |-> <<>>,
              result |-> [op |-> "send_message_task", status |-> "error"]]
        ELSE LET queued == set_status(db, message_id, "QUEUED")
                 call == [node |-> "send_message_to_platform",
                          message_id |-> message_id,
                          committed_status |-> queued.messages[message_id].status,
                          outcome |-> delivery]
             IN  [db |-> set_status(queued, message_id, status_after(delivery)),
                  calls |-> <<call>>,
                  result |-> [op |-> "send_message_task",
                              status |-> CASE delivery = "True" -> "sent"
                                           [] delivery = "False" -> "failed"
                                           [] OTHER -> "error"]]

SendInit ==
    /\ state = [messages |-> <<>>, queue |-> <<>>, served |-> 0]
    /\ prev = state
    /\ last = [op |-> "none"]
    /\ pc = "Ready"
    /\ llm = "None"
    /\ settings = <<>>
    /\ invocations = <<>>

PostSend ==
    /\ state.served < MaxServed
    /\ \E conversation_id \in RequestedConversations, platform \in PlatformStrings,
          enqueue \in EnqueueOutcomes :
         LET r == send_message(state, conversation_id, platform, enqueue)
         IN  /\ state' = [r.db EXCEPT !.served = @ + 1]
             /\ last' = r.response @@ [conversation_id |-> conversation_id,
                                       platform |-> platform,
                                       enqueue |-> enqueue]
    /\ prev' = state
    /\ UNCHANGED <<pc, llm, settings, invocations>>

\* The worker runs the task with the arguments it was queued with, or the
\* task is called with other arguments.
RunSendTask ==
    /\ state.served < MaxServed
    /\ \E message_id \in 1..(Len(state.messages) + 1), platform \in PlatformStrings,
          delivery \in DeliveryOutcomes :
         LET r == send_message_task(state, message_id, platform, delivery)
         IN  /\ state' = [r.db EXCEPT !.served = @ + 1]
             /\ invocations' = invocations \o r.calls
             /\ last' = r.result @@ [message_id |-> message_id,
                                     platform |-> platform,
                                     delivery |-> delivery,
                                     attempts |-> Len(r.calls)]
    /\ prev' = state
    /\ UNCHANGED <<pc, llm, settings>>

SendNext ==
    \/ PostSend
    \/ RunSendTask

SendSpec == SendInit /\ [][SendNext]_vars

(***************************************************************************)
(* Properties.                                                             *)
(***************************************************************************)
Has(st, key) == key \in DOMAIN st

\* The value of a key as a sequence: empty when the key is absent.
Field(st, key) == IF Has(st, key) THEN <<st[key]>> ELSE <<>>

\* Some provider call of the run raised.
ProviderRaised ==
    \E i \in 1..Len(invocations) : invocations[i].outcome.raises

\* C1: for a message with an urgency marker classify_message ends with
\* intent "urgent" and requires_escalation true, whether or not a provider is
\* configured and whatever it would do, and it makes no provider call.
C1_UrgencyShortCircuit ==
    (last = "classify_message" /\ detect_urgency(prev.message))
        => /\ Has(state, "intent") /\ state.intent = "urgent"
           /\ Has(state, "requires_escalation") /\ state.requires_escalation = TRUE
           /\ invocations = <<>>

C1_Witness ==
    /\ last = "classify_message"
    /\ detect_urgency(prev.message)
    /\ llm = "ChatModel"
    /\ state.intent = "urgent"
    /\ invocations = <<>>

\* C2: once requires_escalation is true after a stage it is true after every
\* later stage of the run and in the final state.
C2_MonotonicEscalation == [][Flag(state) => Flag(state')]_vars

C2_Witness ==
    /\ pc = "Done"
    /\ Flag(state)
    /\ state.intent = "urgent"
    /\ state.response_valid

\* C3: classify_message always ends with one of the four fixed intents.
C3_IntentIsFixed ==
    last = "classify_message" => (Has(state, "intent") /\ state.intent \in Intents)

\* C4: a provider exception never ends a run: once a provider call has
\* raised, the run is never aborted and it goes on to Done, where response,
\* intent, response_valid and requires_escalation are all set.
RunComplete ==
    /\ pc = "Done"
    /\ {"response", "intent", "response_valid", "requires_escalation"}
           \subseteq DOMAIN state

C4_ProviderFailureNotFatal ==
    /\ [](ProviderRaised => pc # "Aborted")
    /\ ProviderRaised ~> RunComplete

C4_Witness ==
    /\ pc = "Done"
    /\ Len(invocations) = 2
    /\ invocations[1].outcome.raises
    /\ invocations[2].outcome.raises

\* C5: the stages of a run follow one another in the order Received,
\* Classified, ContextReady, Generated, EscalationChecked, Validated, Done,
\* each reached by its own node: none is skipped, none runs twice, and no
\* step leads back to an earlier stage.
StageOrder ==
    {<<"Received", "Classified", "classify_message">>,
     <<"Classified", "ContextReady", "retrieve_context">>,
     <<"ContextReady", "Generated", "generate_response">>,
     <<"Generated", "EscalationChecked", "check_escalation">>,
     <<"EscalationChecked", "Validated", "validate_response">>,
     <<"Validated", "Done", "validate_response">>}

InStageOrder == <<pc, pc', last'>> \in StageOrder

C6_EscalatedResponseIsFixed ==
    (pc = "Done" /\ Flag(state))
        => state.response \in {ESCALATION_MESSAGE, HANDOFF_APOLOGY}

\* C7: generate_response called with requires_escalation true sets response
\* to the escalation message verbatim, whatever the intent and the sentiment
\* score, and makes no provider call.
C7_EscalatedGenerationIsVerbatim ==
    (last = "generate_response" /\ Flag(prev))
        => /\ Has(state, "response") /\ state.response = ESCALATION_MESSAGE
           /\ invocations = <<>>

C7_Witness ==
    /\ last = "generate_response"
    /\ Flag(prev)
    /\ Get(prev, "intent", "general") = "sales"
    /\ Get(prev, "sentiment_score", 0) <= StronglyNegative
    /\ llm = "ChatModel"
    /\ state.response = ESCALATION_MESSAGE

\* C8: for a message without urgency marker, when the provider call raises
\* or its reply lacks the marker "CLASSIFICATION:", the intent is the one the
\* rule-based classification gives for that message.
C8_FallbackIsRuleBased ==
    (/\ last = "classify_message"
     /\ ~detect_urgency(prev.message)
     /\ invocations # <<>>
     /\ \/ invocations[1].outcome.raises
        \/ ~Contains(invocations[1].outcome.content, "CLASSIFICATION:"))
        => state.intent = rule_based_classification(prev.message)

C8_Witness ==
    /\ last = "classify_message"
    /\ invocations # <<>>
    /\ invocations[1].outcome.raises
    /\ state.intent = "sales"

\* C9: without a provider, a message (no urgency marker) that contains a
\* sales keyword in any letter case is "sales" even if it also contains a
\* support keyword; otherwise one that contains a support keyword is
\* "support"; otherwise it is "general".
MentionsAny(message, keywords) ==
    \E k \in keywords : Contains(lower(message), k)

C9_KeywordOrder ==
    (last = "classify_message" /\ llm = "None" /\ ~detect_urgency(prev.message))
        => state.intent =
             IF MentionsAny(prev.message, SalesKeywords) THEN "sales"
             ELSE IF MentionsAny(prev.message, SupportKeywords) THEN "support"
             ELSE "general"

C9_Witness ==
    /\ last = "classify_message"
    /\ llm = "None"
    /\ Contains(prev.message, "Pricing")
    /\ Contains(prev.message, "ORDER")
    /\ state.intent = "sales"

\* C10: check_escalation sets sentiment_score to the message's sentiment on
\* every path; for intent "urgent" it also sets requires_escalation true and
\* the urgent escalation reason.
C10_GateAlwaysScoresSentiment ==
    last = "check_escalation"
        => /\ Has(state, "sentiment_score")
           /\ state.sentiment_score = extract_sentiment_indicators(prev.message)
           /\ Get(prev, "intent", "") = "urgent"
                => /\ Has(state, "requires_escalation")
                   /\ state.requires_escalation = TRUE
                   /\ Has(state, "escalation_reason")
                   /\ state.escalation_reason = URGENT_REASON

C10_Witness ==
    /\ last = "check_escalation"
    /\ Get(prev, "intent", "") = "urgent"
    /\ ~Has(prev, "sentiment_score")
    /\ ~Flag(prev)
    /\ state.sentiment_score < 0
    /\ state.requires_escalation = TRUE

\* C11: for an intent other than "urgent", check_escalation sets
\* requires_escalation true with the negative-sentiment reason exactly when
\* the score is at most -0.6 (the boundary included); above -0.6 the flag
\* keeps its previous value, false when it was never set, and no reason is
\* written.
C11_SentimentThreshold ==
    (last = "check_escalation" /\ Get(prev, "intent", "") # "urgent")
        => IF extract_sentiment_indicators(prev.message) <= -6
           THEN /\ Field(state, "requires_escalation") = <<TRUE>>
                /\ Field(state, "escalation_reason") = <<NEGATIVE_SENTIMENT_REASON>>
           ELSE /\ Field(state, "requires_escalation") = <<Flag(prev)>>
                /\ Field(state, "escalation_reason") = Field(prev, "escalation_reason")

C11_Witness ==
    /\ last = "check_escalation"
    /\ Get(prev, "intent", "") = "general"
    /\ extract_sentiment_indicators(prev.message) = -6
    /\ ~Flag(prev)
    /\ state.requires_escalation = TRUE
    /\ state.escalation_reason = NEGATIVE_SENTIMENT_REASON

\* C12: check_escalation changes no field other than requires_escalation,
\* escalation_reason and sentiment_score: every other key of the
\* RequestState (message, conversation_history, intent, language,
\* prompt_variant, formatted_context, response, response_valid) is present
\* after it exactly when it was present before, with the same value.
GateFields == {"requires_escalation", "escalation_reason", "sentiment_score"}

C12_GateFrame ==
    last = "check_escalation"
        => \A key \in (DOMAIN prev \cup DOMAIN state) \ GateFields :
              Field(state, key) = Field(prev, key)

C12_Witness ==
    /\ last = "check_escalation"
    /\ {"message", "conversation_history", "intent", "language",
        "prompt_variant", "formatted_context", "response"} \subseteq DOMAIN prev
    /\ ~Flag(prev)
    /\ Flag(state)
    /\ state.response = prev.response

\* C13: in every state of a pipeline run, requires_escalation true implies
\* that escalation_reason is set.
C13_EscalationHasReason ==
    Flag(state) => Has(state, "escalation_reason")

\* C14: when generate_response runs without escalation and the provider is
\* not configured or its call raises, the text it generates (the text handed
\* to tone adjustment) is the mock response of the state's intent, the
\* general one when the intent has no mock entry, and the provider is called
\* at most once: not at all when it is not configured, once when it raises.
MockFor(intent) ==
    IF intent \in DOMAIN MOCK_RESPONSES
    THEN MOCK_RESPONSES[intent]
    ELSE MOCK_RESPONSES["general"]

C14_MockFallback ==
    (/\ last = "generate_response"
     /\ ~Flag(prev)
     /\ Get(prev, "intent", "general") # "urgent"
     /\ \/ llm = "None"
        \/ (invocations # <<>> /\ invocations[1].outcome.raises))
        => /\ Field(state, "response") =
                <<adjust_response_for_sentiment(
                      MockFor(Get(prev, "intent", "general")),
                      Get(prev, "sentiment_score", 0))>>
           /\ Len(invocations) = IF llm = "None" THEN 0 ELSE 1

C14_Witness ==
    /\ last = "generate_response"
    /\ ~Flag(prev)
    /\ Get(prev, "intent", "general") = "sales"
    /\ invocations # <<>>
    /\ invocations[1].outcome.raises
    /\ state.response = MOCK_RESPONSES["sales"]

\* C15: after generate_response the response is non-empty text, whatever
\* the intent, the escalation flag and the provider's behaviour.
C15_ResponseNonEmpty ==
    last = "generate_response"
        => (Has(state, "response") /\ state.response # "")

\* C17: when validate_response rejects, the response becomes the fixed
\* hand-off apology and requires_escalation is true; when it accepts, response
\* and requires_escalation are exactly as they were before validation.
C17_RejectionHandsOff ==
    last = "validate_response"
        => IF state.response_valid
           THEN /\ Field(state, "response") = Field(prev, "response")
                /\ Field(state, "requires_escalation") =
                       Field(prev, "requires_escalation")
           ELSE /\ Field(state, "response") = <<HANDOFF_APOLOGY>>
                /\ Field(state, "requires_escalation") = <<TRUE>>

C17_Witness ==
    /\ pc = "Done"
    /\ last = "validate_response"
    /\ prev.response = "Hi"
    /\ ~Flag(prev)
    /\ ~state.response_valid
    /\ state.response = HANDOFF_APOLOGY
    /\ state.requires_escalation = TRUE

\* C18: in every final state, response_valid false implies
\* requires_escalation true.
C18_InvalidImpliesEscalated ==
    (pc = "Done" /\ Has(state, "response_valid") /\ ~state.response_valid)
        => Field(state, "requires_escalation") = <<TRUE>>

C18_Witness ==
    /\ pc = "Done"
    /\ ~state.response_valid
    /\ Flag(state)
    /\ state.intent # "urgent"
    /\ state.sentiment_score > ESCALATION_SENTIMENT
    /\ ~Has(state, "escalation_reason")

\* C19: no step of a run modifies message or conversation_history, and no
\* step other than classify_message modifies intent or language.
WriteOnceStep ==
    /\ Field(state', "message") = Field(state, "message")
    /\ Field(state', "conversation_history") = Field(state, "conversation_history")
    /\ last' # "classify_message"
           => /\ Field(state', "intent") = Field(state, "intent")
              /\ Field(state', "language") = Field(state, "language")

C19_WriteOnce == [][WriteOnceStep]_vars

C19_Witness ==
    /\ pc = "Done"
    /\ Len(state.conversation_history) = 2
    /\ state.intent = "sales"
    /\ state.language = "es"
    /\ state.response # prev.response

AllWhitespace(text) ==
    \A i \in 1..Len(text) : CharAt(text, i) \in {" ", "\t", "\n", "\r"}

C16_AcceptanceRule ==
    last = "validate_response"
        => LET response == Get(prev, "response", "")
           IN  /\ Field(state, "response_valid") =
                     <<(/\ Len(response) > 10
                        /\ Len(response) < 1000
                        /\ ~AllWhitespace(response))>>
               /\ Len(response) = 10 => ~state.response_valid
               /\ Len(response) = 1000 => ~state.response_valid
               /\ (Len(response) \in {11, 999} /\ ~AllWhitespace(response))
                      => state.response_valid
               /\ AllWhitespace(response) => ~state.response_valid

C16_Witness ==
    /\ last = "validate_response"
    /\ Has(prev, "response")
    /\ Len(prev.response) = 999
    /\ CharAt(prev.response, 999) = "x"
    /\ CharAt(prev.response, 1) = " "
    /\ state.response_valid
    /\ state.response = prev.response

\* C21: the template generation hands to the provider is the one registered
\* for "{intent}_{variant}" when the intent is support, sales or general and
\* the variant is A or B, and the general A template for every other pair;
\* the selection never fails.
EndsWith(text, suffix) ==
    /\ Len(suffix) <= Len(text)
    /\ SubSeq(text, Len(text) - Len(suffix) + 1, Len(text)) = suffix

RegisteredTemplate(intent, variant) ==
    CASE intent = "support" /\ variant = "A" -> SUPPORT_RESPONSE_PROMPT_A
      [] intent = "support" /\ variant = "B" -> SUPPORT_RESPONSE_PROMPT_B
      [] intent = "sales" /\ variant = "A" -> SALES_RESPONSE_PROMPT_A
      [] intent = "sales" /\ variant = "B" -> SALES_RESPONSE_PROMPT_B
      [] intent = "general" /\ variant = "A" -> GENERAL_RESPONSE_PROMPT_A
      [] intent = "general" /\ variant = "B" -> GENERAL_RESPONSE_PROMPT_B
      [] OTHER -> GENERAL_RESPONSE_PROMPT_A

C21_TemplateSelection ==
    /\ last = "generate_response" => pc = "Returned"
    /\ (last = "generate_response" /\ invocations # <<>>)
           => EndsWith(invocations[1].template,
                       RegisteredTemplate(
                           Get(prev, "intent", "general"),
                           Get(prev, "prompt_variant",
                               upper(settings.agent_prompt_variant))))

C21_Witness ==
    /\ last = "generate_response"
    /\ invocations # <<>>
    /\ Get(prev, "intent", "") = "billing"
    /\ Get(prev, "prompt_variant", "") = "Z"
    /\ Get(prev, "language", "") = "en"
    /\ invocations[1].template = GENERAL_RESPONSE_PROMPT_A

\* C22: the template generation hands to the provider carries the language
\* directive exactly when the state's language differs from the configured
\* default language.
LanguageDirective(language) ==
    "You MUST answer in language code '" \o language \o "'.\n\n"

C22_DirectiveIffNotDefault ==
    (last = "generate_response" /\ invocations # <<>>
         /\ invocations[Len(invocations)].node = "generate_response")
        => LET language == Get(prev, "language", settings.agent_default_language)
               template == invocations[Len(invocations)].template
               bare == RegisteredTemplate(
                           Get(prev, "intent", "general"),
                           Get(prev, "prompt_variant",
                               upper(settings.agent_prompt_variant)))
           IN  template = IF language # settings.agent_default_language
                          THEN LanguageDirective(language) \o bare
                          ELSE bare

\* C23: in one run the provider is invoked at most once by classification
\* and at most once by generation, so a failed call is not issued again, and
\* it is not invoked at all for a message with an urgency marker.
CallsBy(node) ==
    Cardinality({i \in 1..Len(invocations) : invocations[i].node = node})

C23_NoRetry ==
    /\ CallsBy("classify_message") <= 1
    /\ CallsBy("generate_response") <= 1
    /\ Len(invocations) = CallsBy("classify_message") + CallsBy("generate_response")
    /\ invocations # <<>> => ~detect_urgency(state.message)

C23_Witness ==
    /\ pc = "Done"
    /\ Len(invocations) = 2
    /\ invocations[1].node = "classify_message"
    /\ invocations[1].outcome.raises
    /\ invocations[2].node = "generate_response"
    /\ invocations[2].outcome.raises

\* C24: a provider call that is never answered is abandoned, and the run
\* goes on to Done.
CallUnanswered ==
    /\ invocations # <<>>
    /\ invocations[Len(invocations)].outcome = NoAnswer

C24_UnansweredCallEnds == CallUnanswered ~> pc = "Done"

\* C25: when two invocations with distinct records run interleaved on one
\* AgentNodes instance, each ends in the final state it reaches when it runs
\* alone with the same provider answers, and the shared provider handle and
\* configuration are as they were.
AnswerTo(message, node) ==
    LET calls == {i \in 1..Len(invocations) :
                     /\ invocations[i].message = message
                     /\ invocations[i].node = node}
    IN  IF calls = {} THEN Raises
        ELSE invocations[CHOOSE i \in calls : TRUE].outcome

RunAlone(st) ==
    LET classified == classify_message(st, AnswerTo(st.message, "classify_message")).state
        context == retrieve_context(classified).state
        generated == generate_response(context,
                         AnswerTo(st.message, "generate_response")).state
        gated == check_escalation(generated).state
    IN  validate_response(gated).state

C25_Isolation ==
    (pc = <<"Done", "Done">>)
        => \A r \in Invocations : state[r] = RunAlone(prev[r])

C25_Witness ==
    /\ pc = <<"Done", "Done">>
    /\ Len(invocations) = 4
    /\ invocations[1].message = state[2].message
    /\ invocations[2].message = state[1].message
    /\ invocations[3].message = state[1].message
    /\ invocations[4].message = state[2].message
    /\ state[1].intent # state[2].intent
    /\ state[1].response # state[2].response

\* C26: a run on a message with an urgency marker ends, whatever the
\* provider does, with intent "urgent", requires_escalation true and the
\* fixed escalation message as the response, accepted by validation.
C26_UrgentEndToEnd ==
    (pc = "Done" /\ detect_urgency(state.message))
        => /\ Field(state, "intent") = <<"urgent">>
           /\ Field(state, "requires_escalation") = <<TRUE>>
           /\ Field(state, "response") = <<ESCALATION_MESSAGE>>
           /\ Field(state, "response_valid") = <<TRUE>>

C26_Witness ==
    /\ pc = "Done"
    /\ state.message = "This is ridiculous!!! I've been charged twice!"
    /\ llm = "ChatModel"
    /\ state.intent = "urgent"
    /\ state.requires_escalation = TRUE
    /\ state.response = ESCALATION_MESSAGE
    /\ state.response_valid = TRUE

\* C27: with no provider, a run on a message that has no urgency marker,
\* contains a sales keyword and scores above -0.6 ends with intent "sales",
\* the sales mock response as it stands, response_valid true and
\* requires_escalation false.
C27_SalesEndToEnd ==
    (/\ pc = "Done"
     /\ llm = "None"
     /\ ~detect_urgency(state.message)
     /\ MentionsAny(state.message, {"price", "pricing", "cost", "buy",
                                    "purchase", "plan", "enterprise", "demo"})
     /\ extract_sentiment_indicators(state.message) > -6)
        => /\ Field(state, "intent") = <<"sales">>
           /\ Field(state, "response") = <<MOCK_RESPONSES["sales"]>>
           /\ Field(state, "response_valid") = <<TRUE>>
           /\ Field(state, "requires_escalation") = <<FALSE>>

C27_Witness ==
    /\ pc = "Done"
    /\ llm = "None"
    /\ state.message = "What's the pricing for your enterprise plan?"
    /\ state.intent = "sales"
    /\ state.response = MOCK_RESPONSES["sales"]
    /\ state.response_valid = TRUE
    /\ state.requires_escalation = FALSE

\* C28: when generate_response produces a reply that is not the escalation
\* message, the sentiment value it reads for tone adjustment is the score of
\* the message.
C28_GenerationReadsGateScore ==
    (/\ last = "generate_response"
     /\ ~Flag(prev)
     /\ Get(prev, "intent", "general") # "urgent")
        => Get(prev, "sentiment_score", 0) =
               extract_sentiment_indicators(prev.message)

\* C29: the sentiment score of every text lies in [-1.0, 1.0], however many
\* lexicon terms match; it is above 0 when only positive terms match, below 0
\* when only negative terms match, and exactly 0 when no term matches.
C29_SentimentBounded ==
    last = "check_escalation"
        => LET low == lower(prev.message)
               score == state.sentiment_score
               positive == \E t \in {"thank", "great", "love"} : Contains(low, t)
               negative == \E t \in {"terrible", "awful", "unacceptable",
                                     "ridiculous"} : Contains(low, t)
           IN  /\ score >= -10
               /\ score <= 10
               /\ (positive /\ ~negative) => score > 0
               /\ (negative /\ ~positive) => score < 0
               /\ (~positive /\ ~negative) => score = 0

C29_Witness ==
    /\ last = "check_escalation"
    /\ prev.message = "terrible AWFUL unacceptable ridiculous "
    /\ state.sentiment_score = -10

\* C30: retrieve_context stores in formatted_context the rendering of the
\* history: the sentinel "No previous context." for an empty history, and
\* otherwise one line per message, oldest first, made of the upper-cased
\* sender role and the content; the rendering classification handed to the
\* provider for the same history is identical to it.
RoleLabel(sender_type) ==
    CASE sender_type = "user" -> "USER"
      [] sender_type = "agent" -> "AGENT"

Consecutive(i) ==
    /\ last[i].op = "get_llm_cached"
    /\ last[i + 1].op = "get_llm_cached"
    /\ ~last[i].raised
    /\ last[i + 1].provider = last[i].provider

ClassOf(provider) ==
    CASE provider \in {"openai", " ChatGPT"} -> "ChatOpenAI"
      [] provider = "openrouter" -> "ChatOpenRouter"
      [] provider = "anthropic" -> "ChatAnthropic"
      [] OTHER -> "no class"

LatestCall == last[Len(last)]

C32_CachedHandleMatchesProvider ==
    /\ state["_llm_instance"] # <<>>
           => /\ state["_llm_provider"] # <<>>
              /\ state["_llm_instance"][1].class = ClassOf(state["_llm_provider"][1])
    /\ \A i \in 1..Len(last) :
          last[i].result # <<>> => last[i].result[1].class = ClassOf(last[i].provider)
    /\ (/\ last # <<>>
        /\ LatestCall.op = "get_llm_cached"
        /\ ~LatestCall.raised
        /\ \/ prev["_llm_instance"] = <<>>
           \/ prev["_llm_provider"] # <<LatestCall.provider>>)
           => /\ LatestCall.calls = 1
              /\ state["_llm_instance"] = LatestCall.result
              /\ state["_llm_provider"] = <<LatestCall.provider>>
              /\ LatestCall.result # <<>> => LatestCall.result[1].id = Len(invocations)

C32_Witness ==
    /\ Len(last) = 3
    /\ last[1].op = "get_llm_cached" /\ last[1].provider = "openrouter"
    /\ last[1].result # <<>>
    /\ last[2].op = "reset_llm_cache"
    /\ last[3].op = "get_llm_cached" /\ last[3].provider = " ChatGPT"
    /\ state["_llm_instance"] = <<[id |-> 2, class |-> "ChatOpenAI"]>>
    /\ state["_llm_provider"] = <<" ChatGPT">>

\* C39: a get_llm_cached call in which get_llm raises leaves _llm_instance and
\* _llm_provider as they were, and a call for the provider that is cached
\* returns the cached handle without calling get_llm.
C39_RaiseKeepsCache ==
    (last # <<>> /\ LatestCall.op = "get_llm_cached")
        => /\ LatestCall.raised => state = prev
           /\ (/\ prev["_llm_instance"] # <<>>
               /\ prev["_llm_provider"] = <<LatestCall.provider>>)
                  => /\ ~LatestCall.raised
                     /\ LatestCall.result = prev["_llm_instance"]
                     /\ LatestCall.calls = 0
                     /\ state = prev

C39_Witness ==
    /\ Len(last) = 3
    /\ last[1].op = "get_llm_cached" /\ last[1].provider = "openai"
    /\ last[1].result # <<>>
    /\ last[2].op = "get_llm_cached" /\ last[2].raised
    /\ last[3].op = "get_llm_cached" /\ last[3].provider = "openai"
    /\ last[3].result = last[1].result
    /\ last[3].calls = 0
    /\ Len(invocations) = 2

\* C40: when two threads have called get_llm_cached on an empty cache and
\* both have returned, then for the same provider one handle was constructed
\* and both received it, and for different providers each received a handle
\* of the provider it asked for and the cached handle is of the cached
\* provider.
HandleFits(handle, provider) ==
    IF provider = "mock" THEN handle = <<>>
    ELSE handle # <<>> /\ handle[1].class = ClassOf(provider)

C40_ConcurrentCallsAgree ==
    (\A t \in Threads : pc[t] = "returned")
        => IF prev[1].provider = prev[2].provider
           THEN /\ llm[1] = llm[2]
                /\ Cardinality({i \in 1..Len(invocations) :
                                   invocations[i].outcome.value # <<>>}) <= 1
           ELSE /\ \A t \in Threads : HandleFits(llm[t], prev[t].provider)
                /\ state["_llm_instance"] # <<>>
                       => HandleFits(state["_llm_instance"], state["_llm_provider"][1])

\* C33 as stated: POST /messages/send answers 404 for a conversation that
\* does not exist and then adds no row and no task; for an existing
\* conversation it adds one outbound row with status QUEUED and a task for
\* that row's id, and answers 202 with the row's id and the job id.
RowsAdded == Len(state.messages) - Len(prev.messages)
TasksAdded == Len(state.queue) - Len(prev.queue)
NewRow == state.messages[Len(state.messages)]
NewTask == state.queue[Len(state.queue)]

NotFoundAnswer ==
    /\ last.status_code = 404
    /\ state.messages = prev.messages
    /\ state.queue = prev.queue

RowCommitted ==
    /\ RowsAdded = 1
    /\ NewRow.status = "QUEUED"
    /\ NewRow.direction = "OUTBOUND"
    /\ NewRow.conversation_id = last.conversation_id

AcceptedAnswer ==
    /\ TasksAdded = 1
    /\ NewTask.message_id = NewRow.id
    /\ last.status_code = 202
    /\ last.success
    /\ last.message_id = <<NewRow.id>>
    /\ last.job_id = <<NewTask.job_id>>

C33_SendContract ==
    last.op = "send_message"
        => IF last.conversation_id # 7
           THEN NotFoundAnswer
           ELSE RowCommitted /\ AcceptedAnswer

\* C33: POST /messages/send answers 404 for a conversation that does not
\* exist and then adds no row and no task; for an existing conversation it
\* adds one outbound row with status QUEUED, and then, when the platform is
\* valid and the enqueue succeeds, adds a task for that row's id and answers
\* 202 with the row's id and the job id; otherwise it adds no task and
\* answers 202 with success false and neither id, the row staying QUEUED.
C33_SendContractOnEnqueue ==
    last.op = "send_message"
        => IF last.conversation_id # 7
           THEN NotFoundAnswer
           ELSE /\ RowCommitted
                /\ IF last.platform \in {"tiktok", "linkedin"} /\ last.enqueue = "queued"
                   THEN AcceptedAnswer
                   ELSE /\ TasksAdded = 0
                        /\ last.status_code = 202
                        /\ ~last.success
                        /\ last.message_id = <<>>
                        /\ last.job_id = <<>>

C33_Witness ==
    /\ last.op = "send_message"
    /\ last.conversation_id = 7
    /\ last.success
    /\ Len(state.messages) = 2
    /\ Len(state.queue) = 1
    /\ state.queue[1].message_id = 2
    /\ last.message_id = <<2>>
    /\ last.job_id = <<1>>

\* C34: send_message_task attempts delivery only for an existing message and
\* only with status QUEUED committed; when it returns, the message's status
\* is SENT exactly when delivery returned success and FAILED otherwise; for
\* a missing message id it returns an error without attempting delivery.
C34_StatusLifecycle ==
    /\ \A i \in 1..Len(invocations) : invocations[i].committed_status = "QUEUED"
    /\ last.op = "send_message_task"
           => IF last.message_id \in 1..Len(prev.messages)
              THEN /\ state.messages[last.message_id].status =
                          IF last.attempts = 1 /\ last.delivery = "True"
                          THEN "SENT" ELSE "FAILED"
                   /\ last.attempts = IF last.platform \in {"tiktok", "linkedin"}
                                      THEN 1 ELSE 0
                   /\ last.attempts = 1
                          => invocations[Len(invocations)].message_id = last.message_id
              ELSE /\ last.status = "error"
                   /\ last.attempts = 0
                   /\ state.messages = prev.messages

C34_Witness ==
    /\ last.op = "send_message_task"
    /\ last.message_id = 1
    /\ last.delivery = "raises"
    /\ last.attempts = 1
    /\ prev.messages[1].status = "SENT"
    /\ state.messages[1].status = "FAILED"

\* C38: a POST /messages/send that answers success false leaves no new
\* message row behind, and every row the endpoint committed has a send task
\* enqueued for its id.
C38_NoRowWithoutTask ==
    /\ (last.op = "send_message" /\ ~last.success)
           => state.messages = prev.messages
    /\ \A i \in 1..Len(state.messages) :
          \E j \in 1..Len(state.queue) : state.queue[j].message_id = i

\* C35: classify_message sets language and prompt_variant on every path;
\* language is the configured default when auto-detection is disabled, and
\* prompt_variant is the upper-cased configured variant and is A or B.
C35_LanguageAndVariantSet ==
    last = "classify_message"
        => /\ Has(state, "language")
           /\ Has(state, "prompt_variant")
           /\ ~settings.agent_auto_detect_language
                  => state.language = settings.agent_default_language
           /\ state.prompt_variant = upper(settings.agent_prompt_variant)
           /\ state.prompt_variant \in {"A", "B"}

\* C36: in every final state, intent "urgent" implies requires_escalation
\* true.
C36_UrgentImpliesEscalated ==
    (pc = "Done" /\ Field(state, "intent") = <<"urgent">>)
        => Field(state, "requires_escalation") = <<TRUE>>

C36_Witness ==
    /\ pc = "Done"
    /\ state.intent = "urgent"
    /\ state.message = "I have a question"
    /\ state.requires_escalation = TRUE
    /\ state.escalation_reason = URGENT_REASON

\* C37: in every final state the response is longer than 10 characters,
\* shorter than 1000 characters and not blank, whether response_valid is true
\* or false.
C37_FinalResponseAcceptable ==
    pc = "Done"
        => /\ Has(state, "response")
           /\ Len(state.response) > 10
           /\ Len(state.response) < 1000
           /\ ~AllWhitespace(state.response)

C37_Witness ==
    /\ pc = "Done"
    /\ prev.response = ""
    /\ state.response_valid = FALSE
    /\ Len(state.response) > 10
    /\ Len(state.response) < 1000

====
